---- MODULE Spec2Model ----
(***************************************************************************)
(* A model of opendlv-logic-control-speed.cpp: a PID speed controller.     *)
(*                                                                         *)
(* Three execution contexts share the locals of main():                    *)
(*   - main itself (argument check, configuration, registration of the     *)
(*     two data triggers and of the time trigger),                         *)
(*   - the handler onGroundSpeedReading and the handler                    *)
(*     onGroundSpeedRequest, run by the session on receipt of a message,   *)
(*   - the periodic callback atFrequency.                                  *)
(* Every handler is modelled statement by statement where it touches       *)
(* shared state (mutex acquire, write of the value, write of the flag,     *)
(* release), so that every interleaving the two mutexes allow is explored. *)
(*                                                                         *)
(* Numbers.  Speeds, gains and limits are integers.  dt = 1/freq, so every *)
(* quantity of the control law is a multiple of 1/freq (P term, integral)  *)
(* or an integer (D term).  integral and control are held SCALED BY freq:  *)
(* the model's integral is integral*freq of the program, and the           *)
(* acceleration of a message is acceleration*freq.  The arithmetic is then *)
(* exact; the rounding of double and float is not modelled.                *)
(***************************************************************************)
EXTENDS Integers, Sequences, FiniteSets, TLC

\* ---------------------------------------------------------------- bounds
MaxFreq == 2          \* --freq is drawn from 0..MaxFreq (1..MaxFreq in Spec)
MaxSpeed == 1         \* ground speeds carried by messages: 0..MaxSpeed
MaxUpdates == 2       \* accepted messages per handler
MaxTicks == 2         \* ticks that reach the control law

Speeds == 0..MaxSpeed
Gains == {1, 2}                 \* values of --p and --i
DGains == {2}                   \* values of --d
ILimits == {-1, 1}              \* values of --i-limit
OutputLimitMins == {-1, 1}      \* values of --output-limit-min
OutputLimitMaxs == {0}          \* values of --output-limit-max
SenderIds == {1}                \* values of --*-sender-id when given
Stamps == {0, 1}                \* senderStamp of an incoming envelope
Garbage == {-7, 7}              \* what a read of an unwritten double may give
Undefined == {"finite", "nan", "+inf", "-inf"}  \* classes of a double

\* reading and target between their declaration and their first write.
Indeterminate == 99

\* rstamp and qstamp while their handler is not running.
NoEnvelope == -1

\* An optional command-line argument: absent, or present with a value.
Opt(S) == {[has |-> FALSE, val |-> 0]} \cup {[has |-> TRUE, val |-> v] : v \in S}

VARIABLES
  args,          \* commandlineArguments
  mpc,           \* position of main
  retCode,
  cfg,           \* the configuration locals of main (lines 49-87)
  integral,      \* scaled by freq
  prevError,
  hasReading, reading, readingMutex,
  hasTarget, target, targetMutex,
  rpc, rmsg,     \* onGroundSpeedReading: position, groundSpeed of its envelope
  rstamp,        \* onGroundSpeedReading: senderStamp of its envelope
  qpc, qmsg,     \* onGroundSpeedRequest: position, groundSpeed of its envelope
  qstamp,        \* onGroundSpeedRequest: senderStamp of its envelope
  tpc, error,    \* atFrequency: position, its local error
  sent,          \* what od4.send has been given, in order
  steps,         \* history: the inputs and intermediate values of each sending tick
  nReading, nTarget   \* accepted updates that have returned

vars == <<args, mpc, retCode, cfg, integral, prevError,
          hasReading, reading, readingMutex, hasTarget, target, targetMutex,
          rpc, rmsg, rstamp, qpc, qmsg, qstamp, tpc, error, sent, steps,
          nReading, nTarget>>

mainVars == <<args, mpc, retCode, cfg>>
readingVars == <<hasReading, reading, readingMutex, rpc, rmsg, rstamp, nReading>>
targetVars == <<hasTarget, target, targetMutex, qpc, qmsg, qstamp, nTarget>>
pidVars == <<integral, prevError>>

\* ------------------------------------------------------------------ main
\* The command lines the model starts from.
ArgSets ==
  [cid : BOOLEAN, freq : Opt(0..MaxFreq),
   p : Opt(Gains), d : Opt(DGains), i : Opt(Gains),
   iLimit : Opt(ILimits),
   outputLimitMin : Opt(OutputLimitMins),
   outputLimitMax : Opt(OutputLimitMaxs),
   inputSenderId : Opt(SenderIds),
   controlSenderId : Opt(SenderIds),
   outputSenderId : Opt(SenderIds)]

\* The locals before lines 49-87 have run.
NoConfig ==
  [freq |-> 0, inputSenderId |-> 0, controlSenderId |-> 0, outputSenderId |-> 0,
   hasP |-> FALSE, hasD |-> FALSE, hasI |-> FALSE, hasILimit |-> FALSE,
   hasOutputLimitMin |-> FALSE, hasOutputLimitMax |-> FALSE,
   p |-> 0, d |-> 0, i |-> 0, iLimit |-> 0,
   outputLimitMin |-> 0, outputLimitMax |-> 0]

\* Lines 49-85: count(x) != 0 ? value : 0.
ArgValue(a) == IF a.has THEN a.val ELSE 0

Configure(a) ==
  [freq |-> a.freq.val,
   inputSenderId |-> ArgValue(a.inputSenderId),
   controlSenderId |-> ArgValue(a.controlSenderId),
   outputSenderId |-> ArgValue(a.outputSenderId),
   hasP |-> a.p.has, hasD |-> a.d.has, hasI |-> a.i.has,
   hasILimit |-> a.iLimit.has,
   hasOutputLimitMin |-> a.outputLimitMin.has,
   hasOutputLimitMax |-> a.outputLimitMax.has,
   p |-> ArgValue(a.p), d |-> ArgValue(a.d), i |-> ArgValue(a.i),
   iLimit |-> ArgValue(a.iLimit),
   outputLimitMin |-> ArgValue(a.outputLimitMin),
   outputLimitMax |-> ArgValue(a.outputLimitMax)]

\* Line 30-31: the only test main makes of its arguments.
UsageError(a) == ~a.cid \/ ~a.freq.has

\* The command lines that vary the control law, with the default sender ids.
LawArgs ==
  {a \in ArgSets : ~a.inputSenderId.has /\ ~a.controlSenderId.has
                    /\ ~a.outputSenderId.has}

\* The command lines that vary the sender ids, with the P term alone.
SenderArgs ==
  {a \in ArgSets : a.p.has /\ ~a.d.has /\ ~a.i.has /\ ~a.iLimit.has
                    /\ ~a.outputLimitMin.has /\ ~a.outputLimitMax.has}

InitMain ==
  /\ args \in LawArgs \cup SenderArgs
  /\ mpc = "main"
  /\ retCode = 0
  /\ cfg = NoConfig
  /\ integral = 0
  /\ prevError = 0
  /\ hasReading = FALSE
  /\ reading = Indeterminate
  /\ readingMutex = "free"
  /\ hasTarget = FALSE
  /\ target = Indeterminate
  /\ targetMutex = "free"
  /\ rpc = "idle" /\ rmsg = 0 /\ rstamp = NoEnvelope
  /\ qpc = "idle" /\ qmsg = 0 /\ qstamp = NoEnvelope
  /\ tpc = "idle" /\ error = 0
  /\ sent = <<>>
  /\ steps = <<>>
  /\ nReading = 0
  /\ nTarget = 0

\* The control loop is specified for a positive frequency.
Init ==
  /\ InitMain
  /\ args.freq.has => args.freq.val >= 1

\* The tick period is not part of the interleavings: one frequency is
\* enough for them.
InitThreads ==
  /\ Init
  /\ args \in SenderArgs
  /\ args.freq.has => args.freq.val = MaxFreq

\* Lines 30-47: usage message, retCode = 1, nothing else runs.
MainUsage ==
  /\ mpc = "main"
  /\ UsageError(args)
  /\ retCode' = 1
  /\ mpc' = "exit"
  /\ UNCHANGED <<args, cfg, pidVars, readingVars, targetVars, tpc, error, sent, steps>>

\* Lines 49-101: the configuration, dt, the controller state, the session.
MainConfigure ==
  /\ mpc = "main"
  /\ ~UsageError(args)
  /\ cfg' = Configure(args)
  /\ mpc' = "configured"
  /\ UNCHANGED <<args, retCode, pidVars, readingVars, targetVars, tpc, error, sent, steps>>

\* Lines 195-196.
MainTriggerReading ==
  /\ mpc = "configured"
  /\ mpc' = "readingTrigger"
  /\ UNCHANGED <<args, retCode, cfg, pidVars, readingVars, targetVars, tpc, error, sent, steps>>

\* Lines 197-198.
MainTriggerRequest ==
  /\ mpc = "readingTrigger"
  /\ mpc' = "requestTrigger"
  /\ UNCHANGED <<args, retCode, cfg, pidVars, readingVars, targetVars, tpc, error, sent, steps>>

\* Line 199: the session calls atFrequency periodically from here on.
MainTimeTrigger ==
  /\ mpc = "requestTrigger"
  /\ mpc' = "timeTrigger"
  /\ UNCHANGED <<args, retCode, cfg, pidVars, readingVars, targetVars, tpc, error, sent, steps>>

ReadingTriggered == mpc \in {"readingTrigger", "requestTrigger", "timeTrigger"}
RequestTriggered == mpc \in {"requestTrigger", "timeTrigger"}
TimeTriggered == mpc = "timeTrigger"

\* -------------------------------------------------- onGroundSpeedReading
\* The handler without its test of the sender stamp.
ReadingAcceptedAny(stamp) == TRUE

\* Line 107: an envelope of another sender is dropped.
ReadingAccepted(stamp) == stamp = cfg.inputSenderId

OnReadingIgnore ==
  /\ ReadingTriggered
  /\ rpc = "idle"
  /\ \E stamp \in Stamps : ~ReadingAccepted(stamp) /\ rstamp' = stamp
  /\ rpc' = "ignored"
  /\ UNCHANGED <<mainVars, pidVars, hasReading, reading, readingMutex, rmsg,
                 nReading, targetVars, tpc, error, sent, steps>>

\* Line 108: return.
OnReadingReturn ==
  /\ rpc = "ignored"
  /\ rpc' = "idle"
  /\ rstamp' = NoEnvelope
  /\ UNCHANGED <<mainVars, pidVars, hasReading, reading, readingMutex, rmsg,
                 nReading, targetVars, tpc, error, sent, steps>>

\* Line 107: an envelope of the configured sender goes on to line 110.
OnReadingAccept ==
  /\ ReadingTriggered
  /\ rpc = "idle"
  /\ \E stamp \in Stamps : ReadingAccepted(stamp) /\ rstamp' = stamp
  /\ nReading < MaxUpdates
  /\ rpc' = "lock"
  /\ UNCHANGED <<mainVars, pidVars, hasReading, reading, readingMutex, rmsg,
                 nReading, targetVars, tpc, error, sent, steps>>

\* Lines 110-113: lock_guard waits for and acquires readingMutex; the
\* message is extracted.
OnReadingLock ==
  /\ rpc = "lock"
  /\ readingMutex = "free"
  /\ readingMutex' = "onGroundSpeedReading"
  /\ \E v \in Speeds : rmsg' = v
  /\ rpc' = "value"
  /\ UNCHANGED <<mainVars, pidVars, hasReading, reading, rstamp, nReading,
                 targetVars, tpc, error, sent, steps>>

\* The measurement handler storing its value into target.
OnReadingValueIntoTarget ==
  /\ rpc = "value"
  /\ target' = rmsg
  /\ rpc' = "flag"
  /\ UNCHANGED <<mainVars, pidVars, hasReading, reading, readingMutex, rmsg,
                 rstamp, nReading, hasTarget, targetMutex, qpc, qmsg, qstamp,
                 nTarget, tpc, error, sent, steps>>

\* Line 114.
OnReadingValue ==
  /\ rpc = "value"
  /\ reading' = rmsg
  /\ rpc' = "flag"
  /\ UNCHANGED <<mainVars, pidVars, hasReading, readingMutex, rmsg, rstamp, nReading,
                 targetVars, tpc, error, sent, steps>>

\* Line 115.
OnReadingFlag ==
  /\ rpc = "flag"
  /\ hasReading' = TRUE
  /\ rpc' = "unlock"
  /\ UNCHANGED <<mainVars, pidVars, reading, readingMutex, rmsg, rstamp, nReading,
                 targetVars, tpc, error, sent, steps>>

\* The handler returning without releasing readingMutex.
OnReadingUnlockKeeps ==
  /\ rpc = "unlock"
  /\ rpc' = "idle"
  /\ rstamp' = NoEnvelope
  /\ nReading' = nReading + 1
  /\ UNCHANGED <<mainVars, pidVars, hasReading, reading, readingMutex, rmsg,
                 targetVars, tpc, error, sent, steps>>

\* Line 119: the lock_guard releases readingMutex; the handler returns.
OnReadingUnlock ==
  /\ rpc = "unlock"
  /\ readingMutex' = "free"
  /\ rpc' = "idle"
  /\ rstamp' = NoEnvelope
  /\ nReading' = nReading + 1
  /\ UNCHANGED <<mainVars, pidVars, hasReading, reading, rmsg, targetVars,
                 tpc, error, sent, steps>>

\* -------------------------------------------------- onGroundSpeedRequest
\* Line 125.
RequestAccepted(stamp) == stamp = cfg.controlSenderId

OnRequestIgnore ==
  /\ RequestTriggered
  /\ qpc = "idle"
  /\ \E stamp \in Stamps : ~RequestAccepted(stamp) /\ qstamp' = stamp
  /\ qpc' = "ignored"
  /\ UNCHANGED <<mainVars, pidVars, hasTarget, target, targetMutex, qmsg,
                 nTarget, readingVars, tpc, error, sent, steps>>

\* Line 126: return.
OnRequestReturn ==
  /\ qpc = "ignored"
  /\ qpc' = "idle"
  /\ qstamp' = NoEnvelope
  /\ UNCHANGED <<mainVars, pidVars, hasTarget, target, targetMutex, qmsg,
                 nTarget, readingVars, tpc, error, sent, steps>>

\* Line 125: an envelope of the configured sender goes on to line 128.
OnRequestAccept ==
  /\ RequestTriggered
  /\ qpc = "idle"
  /\ \E stamp \in Stamps : RequestAccepted(stamp) /\ qstamp' = stamp
  /\ nTarget < MaxUpdates
  /\ qpc' = "lock"
  /\ UNCHANGED <<mainVars, pidVars, hasTarget, target, targetMutex, qmsg,
                 nTarget, readingVars, tpc, error, sent, steps>>

\* Lines 128-131.
OnRequestLock ==
  /\ qpc = "lock"
  /\ targetMutex = "free"
  /\ targetMutex' = "onGroundSpeedRequest"
  /\ \E v \in Speeds : qmsg' = v
  /\ qpc' = "value"
  /\ UNCHANGED <<mainVars, pidVars, hasTarget, target, qstamp, nTarget,
                 readingVars, tpc, error, sent, steps>>

\* Line 132.
OnRequestValue ==
  /\ qpc = "value"
  /\ target' = qmsg
  /\ qpc' = "flag"
  /\ UNCHANGED <<mainVars, pidVars, hasTarget, targetMutex, qmsg, qstamp, nTarget,
                 readingVars, tpc, error, sent, steps>>

\* Line 133.
OnRequestFlag ==
  /\ qpc = "flag"
  /\ hasTarget' = TRUE
  /\ qpc' = "unlock"
  /\ UNCHANGED <<mainVars, pidVars, target, targetMutex, qmsg, qstamp, nTarget,
                 readingVars, tpc, error, sent, steps>>

\* Line 137.
OnRequestUnlock ==
  /\ qpc = "unlock"
  /\ targetMutex' = "free"
  /\ qpc' = "idle"
  /\ qstamp' = NoEnvelope
  /\ nTarget' = nTarget + 1
  /\ UNCHANGED <<mainVars, pidVars, hasTarget, target, qmsg, readingVars,
                 tpc, error, sent, steps>>

\* ------------------------------------------------------------ atFrequency
\* The tick without its test of hasReading.
ReadingMissingNever == FALSE

\* Line 145, left operand: !hasReading (read without holding readingMutex).
ReadingMissing == ~hasReading

\* The tick without its test of hasTarget.
TargetMissingNever == FALSE

\* Line 145, right operand: !hasTarget (read without holding targetMutex).
TargetMissing == ~hasTarget

\* The error with its operands exchanged.
ErrorSwapped(t, r) == r - t

\* Line 153.
Error(t, r) == t - r

\* What a read of the double x gives: its value, or anything when it has
\* never been written (lines 94 and 98 declare without initialising).
Read(x) == IF x = Indeterminate THEN Garbage ELSE {x}

\* The P term without its gain.
PTermNoGain(control, e) ==
  IF cfg.hasP THEN control + e * cfg.freq ELSE control

\* Lines 157-159.  control is scaled by freq.
PTerm(control, e) ==
  IF cfg.hasP THEN control + cfg.p * e * cfg.freq ELSE control

\* The D term left out of the first tick that reaches the control law.
DTermSkipsFirst(control, e, pe) ==
  IF cfg.hasD /\ sent # <<>>
  THEN control + cfg.d * (e - pe) * cfg.freq * cfg.freq
  ELSE control

\* Lines 161-163: d * (error - prevError) / dt, and dt = 1 / freq.
DTerm(control, e, pe) ==
  IF cfg.hasD THEN control + cfg.d * (e - pe) * cfg.freq * cfg.freq ELSE control

\* std::abs, line 167.
Abs(x) == IF x < 0 THEN -x ELSE x

\* The integral limit left out.
LimitIntegralOff(integ) == integ

\* The integral limit without the test of the sign (lines 168-172).
LimitIntegralUnsigned(integ) ==
  IF cfg.hasILimit /\ Abs(integ) > cfg.iLimit * cfg.freq
  THEN cfg.iLimit * cfg.freq
  ELSE integ

\* Lines 167-173.  integ is scaled by freq, so iLimit is too.
LimitIntegral(integ) ==
  IF cfg.hasILimit /\ Abs(integ) > cfg.iLimit * cfg.freq
  THEN IF integ > 0 THEN cfg.iLimit * cfg.freq ELSE -(cfg.iLimit * cfg.freq)
  ELSE integ

\* The integral overwritten instead of accumulated (= for += at line 166).
IntegrateNoCarry(integ, e) ==
  IF cfg.hasI THEN LimitIntegral(e) ELSE integ

\* Lines 165-173: integral += error * dt, scaled by freq: integral += error.
Integrate(integ, e) ==
  IF cfg.hasI THEN LimitIntegral(integ + e) ELSE integ

\* Line 174; integ is the integral after lines 166-173.
ITerm(control, integ) ==
  IF cfg.hasI THEN control + cfg.i * integ ELSE control

\* The output minimum left out.
LimitMinOff(control) == control

\* Lines 177-179.
LimitMin(control) ==
  IF cfg.hasOutputLimitMin /\ control < cfg.outputLimitMin * cfg.freq
  THEN cfg.outputLimitMin * cfg.freq
  ELSE control

\* The output maximum as a cap: > for < at line 181.
LimitMaxCap(control) ==
  IF cfg.hasOutputLimitMax /\ control > cfg.outputLimitMax * cfg.freq
  THEN cfg.outputLimitMax * cfg.freq
  ELSE control

\* Lines 181-183.
LimitMax(control) ==
  IF cfg.hasOutputLimitMax /\ control < cfg.outputLimitMax * cfg.freq
  THEN cfg.outputLimitMax * cfg.freq
  ELSE control

\* Lines 156-175: the sum of the enabled terms.
Computed(e, pe, integ) ==
  ITerm(DTerm(PTerm(0, e), e, pe), Integrate(integ, e))

\* Lines 156-183.
Control(e, pe, integ) == LimitMax(LimitMin(Computed(e, pe, integ)))

\* prevError after a tick: no statement of atFrequency assigns it.
NextPrevError(e, pe) == pe

\* The message sent with the default sender stamp instead of the configured
\* one.
ActuationRequestUnstamped(control) ==
  [acceleration |-> control, steering |-> 0, isValid |-> TRUE,
   senderStamp |-> 0]

\* Lines 185-190.
ActuationRequest(control) ==
  [acceleration |-> control, steering |-> 0, isValid |-> TRUE,
   senderStamp |-> cfg.outputSenderId]

\* Line 145: hasReading is read first.
TickCheckReading ==
  /\ TimeTriggered
  /\ tpc = "idle"
  /\ Len(sent) < MaxTicks
  /\ tpc' = IF ReadingMissing THEN "skip" ELSE "checkTarget"
  /\ UNCHANGED <<mainVars, pidVars, readingVars, targetVars, error, sent, steps>>

\* Line 145: then hasTarget.
TickCheckTarget ==
  /\ tpc = "checkTarget"
  /\ tpc' = IF TargetMissing THEN "skip" ELSE "lockTarget"
  /\ UNCHANGED <<mainVars, pidVars, readingVars, targetVars, error, sent, steps>>

\* Line 146: return true.
TickSkip ==
  /\ tpc = "skip"
  /\ tpc' = "idle"
  /\ UNCHANGED <<mainVars, pidVars, readingVars, targetVars, error, sent, steps>>

\* The tick taking targetMutex without waiting for its holder.
TickLockTargetNoWait ==
  /\ tpc = "lockTarget"
  /\ targetMutex' = "atFrequency"
  /\ tpc' = "lockReading"
  /\ UNCHANGED <<mainVars, pidVars, readingVars, hasTarget, target, qpc, qmsg,
                 qstamp, nTarget, error, sent, steps>>

\* Line 151.
TickLockTarget ==
  /\ tpc = "lockTarget"
  /\ targetMutex = "free"
  /\ targetMutex' = "atFrequency"
  /\ tpc' = "lockReading"
  /\ UNCHANGED <<mainVars, pidVars, readingVars, hasTarget, target, qpc, qmsg,
                 qstamp, nTarget, error, sent, steps>>

\* The tick taking readingMutex without waiting for its holder.
TickLockReadingNoWait ==
  /\ tpc = "lockReading"
  /\ readingMutex' = "atFrequency"
  /\ tpc' = "error"
  /\ UNCHANGED <<mainVars, pidVars, targetVars, hasReading, reading, rpc, rmsg,
                 rstamp, nReading, error, sent, steps>>

\* Line 152.
TickLockReading ==
  /\ tpc = "lockReading"
  /\ readingMutex = "free"
  /\ readingMutex' = "atFrequency"
  /\ tpc' = "error"
  /\ UNCHANGED <<mainVars, pidVars, targetVars, hasReading, reading, rpc, rmsg,
                 rstamp, nReading, error, sent, steps>>

\* Line 153.
TickError ==
  /\ tpc = "error"
  /\ \E t \in Read(target), r \in Read(reading) : error' = Error(t, r)
  /\ tpc' = "unlockReading"
  /\ UNCHANGED <<mainVars, pidVars, readingVars, targetVars, sent, steps>>

\* Line 154: lockReading is destroyed first.
TickUnlockReading ==
  /\ tpc = "unlockReading"
  /\ readingMutex' = "free"
  /\ tpc' = "unlockTarget"
  /\ UNCHANGED <<mainVars, pidVars, targetVars, hasReading, reading, rpc, rmsg,
                 rstamp, nReading, error, sent, steps>>

\* Line 154: then lockTarget.
TickUnlockTarget ==
  /\ tpc = "unlockTarget"
  /\ targetMutex' = "free"
  /\ tpc' = "control"
  /\ UNCHANGED <<mainVars, pidVars, readingVars, hasTarget, target, qpc, qmsg,
                 qstamp, nTarget, error, sent, steps>>

\* Lines 156-192 with dt = 1/freq finite; e is the error of line 153.
ControlFinite(e) ==
  /\ integral' = Integrate(integral, e)
  /\ prevError' = NextPrevError(e, prevError)
  /\ sent' = Append(sent, ActuationRequest(Control(e, prevError, integral)))
  /\ steps' = Append(steps,
       [error |-> e, prevError |-> prevError, integralBefore |-> integral,
        computed |-> Computed(e, prevError, integral),
        afterMin |-> LimitMin(Computed(e, prevError, integral))])

\* Lines 156-192 with freq = 0: line 87 has divided by zero, and what is
\* computed from dt is known only up to its class.
ControlUndefined(e) ==
  /\ \E c \in Undefined : sent' = Append(sent, ActuationRequest(c))
  /\ \E c \in Undefined : integral' = IF cfg.hasI THEN c ELSE integral
  /\ prevError' = NextPrevError(e, prevError)
  /\ steps' = steps

ControlStep(e) ==
  IF cfg.freq = 0 THEN ControlUndefined(e) ELSE ControlFinite(e)

\* The tick consuming the measurement it used: hasReading is reset.
TickControlConsumes ==
  /\ tpc = "control"
  /\ ControlStep(error)
  /\ tpc' = "idle"
  /\ hasReading' = FALSE
  /\ UNCHANGED <<mainVars, reading, readingMutex, rpc, rmsg, rstamp, nReading,
                 targetVars, error>>

\* Lines 156-192.
TickControl ==
  /\ tpc = "control"
  /\ ControlStep(error)
  /\ tpc' = "idle"
  /\ UNCHANGED <<mainVars, readingVars, targetVars, error>>

\* ---------------------------------------------- callbacks run to completion
\* Lines 103-119 as one step: no other callback runs meanwhile.
OnGroundSpeedReading ==
  /\ ReadingTriggered
  /\ rpc = "idle" /\ readingMutex = "free"
  /\ \E stamp \in Stamps, v \in Speeds :
       IF ReadingAccepted(stamp)
       THEN /\ nReading < MaxUpdates
            /\ reading' = v
            /\ hasReading' = TRUE
            /\ nReading' = nReading + 1
            /\ UNCHANGED <<mainVars, pidVars, readingMutex, rpc, rmsg, rstamp, targetVars,
                           tpc, error, sent, steps>>
       ELSE UNCHANGED vars

\* Lines 121-137 as one step.
OnGroundSpeedRequest ==
  /\ RequestTriggered
  /\ qpc = "idle" /\ targetMutex = "free"
  /\ \E stamp \in Stamps, v \in Speeds :
       IF RequestAccepted(stamp)
       THEN /\ nTarget < MaxUpdates
            /\ target' = v
            /\ hasTarget' = TRUE
            /\ nTarget' = nTarget + 1
            /\ UNCHANGED <<mainVars, pidVars, targetMutex, qpc, qmsg, qstamp, readingVars,
                           tpc, error, sent, steps>>
       ELSE UNCHANGED vars

\* Lines 139-193 as one step.
AtFrequency ==
  /\ TimeTriggered
  /\ tpc = "idle" /\ readingMutex = "free" /\ targetMutex = "free"
  /\ Len(sent) < MaxTicks
  /\ IF ReadingMissing \/ TargetMissing
     THEN UNCHANGED vars
     ELSE /\ \E t \in Read(target), r \in Read(reading) :
               /\ error' = Error(t, r)
               /\ ControlStep(Error(t, r))
          /\ UNCHANGED <<mainVars, readingVars, targetVars, tpc>>

\* ------------------------------------------------------------------ next
Main ==
  \/ MainUsage \/ MainConfigure
  \/ MainTriggerReading \/ MainTriggerRequest \/ MainTimeTrigger

\* Every callback runs to completion before the next one starts.
Next == Main \/ OnGroundSpeedReading \/ OnGroundSpeedRequest \/ AtFrequency

\* The callbacks run concurrently, statement by statement.
NextThreads ==
  \/ Main
  \/ OnReadingIgnore \/ OnReadingReturn \/ OnReadingAccept \/ OnReadingLock
  \/ OnReadingValue
  \/ OnReadingFlag \/ OnReadingUnlock
  \/ OnRequestIgnore \/ OnRequestReturn \/ OnRequestAccept \/ OnRequestLock
  \/ OnRequestValue
  \/ OnRequestFlag \/ OnRequestUnlock
  \/ TickCheckReading \/ TickCheckTarget \/ TickSkip \/ TickLockTarget \/ TickLockReading
  \/ TickError \/ TickUnlockReading \/ TickUnlockTarget \/ TickControl

\* The default sender ids and one gain: the command lines that progress
\* is checked for.
InitFair ==
  /\ InitThreads
  /\ ~args.inputSenderId.has /\ ~args.controlSenderId.has
  /\ ~args.outputSenderId.has
  /\ args.p.val = 1

\* Scheduling: a callback that has started is not suspended forever at a
\* statement it can execute (weak fairness of each statement after the
\* first).  A lock_guard can execute when its mutex is free; the updates and
\* ticks of a run are finitely many, so a mutex that is waited for is free
\* from some point on and weak fairness is enough for the lock_guards too.
\* Nothing obliges an envelope to arrive or a tick to start.
Fairness ==
  /\ WF_vars(OnReadingReturn) /\ WF_vars(OnReadingLock)
  /\ WF_vars(OnReadingValue) /\ WF_vars(OnReadingFlag)
  /\ WF_vars(OnReadingUnlock)
  /\ WF_vars(OnRequestReturn) /\ WF_vars(OnRequestLock)
  /\ WF_vars(OnRequestValue) /\ WF_vars(OnRequestFlag)
  /\ WF_vars(OnRequestUnlock)
  /\ WF_vars(TickCheckTarget) /\ WF_vars(TickSkip)
  /\ WF_vars(TickLockTarget) /\ WF_vars(TickLockReading)
  /\ WF_vars(TickError) /\ WF_vars(TickUnlockReading)
  /\ WF_vars(TickUnlockTarget) /\ WF_vars(TickControl)

\* The program started with a positive frequency.
Spec == Init /\ [][Next]_vars

\* The same, with the three callbacks interleaved.
SpecThreads == InitThreads /\ [][NextThreads]_vars

\* The statements of the callbacks interleaved and fairly scheduled.
SpecFair == InitFair /\ [][NextThreads]_vars /\ Fairness

\* The program started with any frequency main accepts.
SpecMain == InitMain /\ [][Next]_vars

\* ================================================================ claims
Last(q) == q[Len(q)]

\* One accepted update of each kind has returned and no other is under way.
OneOfEach == nReading = 1 /\ nTarget = 1 /\ rpc = "idle" /\ qpc = "idle"

\* C1: whatever the interleaving of the three callbacks, nothing has been
\* sent unless an accepted measurement update and an accepted target update
\* have both returned; and a tick that is past its test of the flags has
\* seen both.
C1_NoOutputBeforeBothUpdates ==
  /\ sent # <<>> => nReading >= 1 /\ nTarget >= 1
  /\ tpc \in {"error", "unlockReading", "unlockTarget", "control"}
       => nReading >= 1 /\ nTarget >= 1

\* C1 witness: a message went out after exactly one update of each kind.
C1_Witness == Len(sent) = 1 /\ nReading = 1 /\ nTarget = 1

\* C2: with exactly one accepted measurement m and one accepted target t
\* returned and no further update under way, a tick that starts does not
\* skip, the error it reads is t - m, and the message it sends carries the
\* control computed from that error (here kP * (t - m), scaled by freq).
C2_Step ==
  OneOfEach =>
    /\ (tpc = "idle" /\ tpc' # "idle") => tpc' = "checkTarget"
    /\ (tpc = "checkTarget" /\ tpc' # tpc) => tpc' = "lockTarget"
    /\ (tpc = "error" /\ tpc' # tpc) => error' = qmsg - rmsg
    /\ (tpc = "control" /\ tpc' # tpc) =>
         /\ Len(sent') = Len(sent) + 1
         /\ Last(sent').acceleration = cfg.p * (qmsg - rmsg) * cfg.freq

C2_NextTickUsesDeliveredValues == [][C2_Step]_vars

\* C2 witness: after one update of each kind, with target # reading, the
\* first message carries kP * (t - m).
C2_Witness ==
  /\ OneOfEach
  /\ Len(sent) = 1
  /\ qmsg # rmsg
  /\ sent[1].acceleration = cfg.p * (qmsg - rmsg) * cfg.freq

\* A step in which atFrequency has sent a message.
Sends == Len(sent') = Len(sent) + 1

\* The limits scaled like integral and control.
Scaled(x) == x * cfg.freq

NoOutputLimits == ~cfg.hasOutputLimitMin /\ ~cfg.hasOutputLimitMax
POnly == cfg.hasP /\ ~cfg.hasD /\ ~cfg.hasI /\ NoOutputLimits
DOnly == cfg.hasD /\ ~cfg.hasP /\ ~cfg.hasI /\ NoOutputLimits
IOnly == cfg.hasI /\ ~cfg.hasP /\ ~cfg.hasD /\ NoOutputLimits

\* C3 (as claimed): with D only, the second of two consecutive ready ticks
\* with errors e0 then e1 publishes kD * (e1 - e0) / dt, which scaled by freq
\* is kD * (e1 - e0) * freq * freq.
C3_Claim ==
  DOnly =>
    \A n \in 2..Len(sent) :
      sent[n].acceleration =
        cfg.d * (steps[n].error - steps[n-1].error) * cfg.freq * cfg.freq

C6_Claim ==
  (cfg.hasI /\ cfg.hasILimit /\ sent # <<>>) =>
    /\ -Scaled(cfg.iLimit) <= integral
    /\ integral <= Scaled(cfg.iLimit)

\* C6 (amended): with I enabled and an integral limit iLimit >= 0
\* configured, -iLimit <= integral <= iLimit in every state.
C6_IntegralWithinLimit ==
  (cfg.hasI /\ cfg.hasILimit /\ cfg.iLimit >= 0) =>
    /\ -Scaled(cfg.iLimit) <= integral
    /\ integral <= Scaled(cfg.iLimit)

\* C6 witness: a tick whose unclamped sum was beyond the limit left the
\* integral on the limit.
C6_Witness ==
  /\ cfg.hasI /\ cfg.hasILimit /\ cfg.iLimit >= 0
  /\ sent # <<>>
  /\ Abs(Last(steps).integralBefore + Last(steps).error) > Scaled(cfg.iLimit)
  /\ Abs(integral) = Scaled(cfg.iLimit)

\* The clamp of C7: L above L, -L below -L, the sum itself otherwise.
ClampSign(sum, L) == IF sum > L THEN L ELSE IF sum < -L THEN -L ELSE sum

\* C7 (as claimed): with I enabled and iLimit = L, the integral after a
\* ready tick is ClampSign(integral before + error * dt).
C7_ClaimStep ==
  (cfg.hasI /\ cfg.hasILimit /\ Sends) =>
    integral' = ClampSign(integral + error', Scaled(cfg.iLimit))

C7_Claim == [][C7_ClaimStep]_vars

\* C7 (amended): the same for iLimit = L >= 0; and an integral on L (on -L)
\* stays there over a tick whose error is positive (negative).
C7_Step ==
  (cfg.hasI /\ cfg.hasILimit /\ cfg.iLimit >= 0 /\ Sends) =>
    /\ integral' = ClampSign(integral + error', Scaled(cfg.iLimit))
    /\ (integral = Scaled(cfg.iLimit) /\ error' > 0)
         => integral' = Scaled(cfg.iLimit)
    /\ (integral = -Scaled(cfg.iLimit) /\ error' < 0)
         => integral' = -Scaled(cfg.iLimit)

C7_IntegralClampedBySign == [][C7_Step]_vars

\* C7 witness: two ticks with a negative error; the second found the
\* integral on -L, its sum was below -L, and the integral is -L still.
C7_Witness ==
  /\ cfg.hasI /\ cfg.hasILimit /\ cfg.iLimit >= 0
  /\ Len(steps) = 2
  /\ steps[1].error < 0 /\ steps[2].error < 0
  /\ steps[2].integralBefore = -Scaled(cfg.iLimit)
  /\ steps[2].integralBefore + steps[2].error < -Scaled(cfg.iLimit)
  /\ integral = -Scaled(cfg.iLimit)

\* C8: with P only and no output limits, every tick that sends publishes
\* kP * (target - reading), and integral stays 0.
C8_Step ==
  POnly =>
    /\ integral' = 0
    /\ Sends => Last(sent').acceleration = Scaled(cfg.p * (target - reading))

C8_POnlyExact == [][C8_Step]_vars

\* C8 witness: P only, two messages, the last one not zero, integral 0.
C8_Witness ==
  /\ POnly
  /\ Len(sent) = 2
  /\ Last(sent).acceleration = Scaled(cfg.p * (target - reading))
  /\ Last(sent).acceleration # 0
  /\ integral = 0

\* C9: with I only, kI = 1, dt = 1, no limits: the integral grows by the
\* error at each ready tick and is what is published, so n ticks with the
\* same error e publish e, 2e, ..., n*e.
C9_IntegralAccumulates ==
  (IOnly /\ cfg.i = 1 /\ cfg.freq = 1 /\ ~cfg.hasILimit) =>
    \A n \in 1..Len(sent) :
      /\ sent[n].acceleration = steps[n].integralBefore + steps[n].error
      /\ steps[n].integralBefore = IF n = 1 THEN 0 ELSE sent[n-1].acceleration
      /\ (\A k \in 1..n : steps[k].error = steps[n].error)
           => sent[n].acceleration = n * steps[n].error

\* C9 witness: two ticks with the same error e # 0 published e then 2e.
C9_Witness ==
  /\ IOnly /\ cfg.i = 1 /\ cfg.freq = 1 /\ ~cfg.hasILimit
  /\ Len(sent) = 2
  /\ steps[1].error = steps[2].error /\ steps[1].error # 0
  /\ sent[1].acceleration = steps[1].error
  /\ sent[2].acceleration = 2 * steps[1].error

\* C10 (as claimed): with --freq <= 0 main ends in an error: no data trigger
\* and no time trigger is ever registered, and nothing is ever sent.
C10_Claim ==
  (args.freq.has /\ args.freq.val <= 0) =>
    /\ ~ReadingTriggered /\ ~RequestTriggered /\ ~TimeTriggered
    /\ mpc = "exit" => retCode # 0
    /\ sent = <<>>

\* ---------------------------------------------------------------------
\* C11: an envelope whose senderStamp differs from the handler's
\* configured id is dropped: the handler returns without acquiring its
\* mutex and leaves the stored value, the flag and everything else as they
\* were; a stored value or flag changes only in a handler whose envelope
\* carries the configured id and which holds the handler's mutex.
C11_Rest ==
  <<mainVars, pidVars, hasReading, reading, readingMutex, rmsg, nReading,
    hasTarget, target, targetMutex, qmsg, nTarget, tpc, error, sent, steps>>

C11_Step ==
  /\ (rpc = "idle" /\ rpc' # "idle" /\ rstamp' # cfg.inputSenderId)
       => (rpc' = "ignored" /\ UNCHANGED <<C11_Rest, qpc, qstamp>>)
  /\ (rpc = "ignored" /\ rpc' # "ignored")
       => (rpc' = "idle" /\ UNCHANGED <<C11_Rest, qpc, qstamp>>)
  /\ (qpc = "idle" /\ qpc' # "idle" /\ qstamp' # cfg.controlSenderId)
       => (qpc' = "ignored" /\ UNCHANGED <<C11_Rest, rpc, rstamp>>)
  /\ (qpc = "ignored" /\ qpc' # "ignored")
       => (qpc' = "idle" /\ UNCHANGED <<C11_Rest, rpc, rstamp>>)
  /\ (reading' # reading \/ hasReading' # hasReading)
       => (rstamp = cfg.inputSenderId /\ readingMutex = "onGroundSpeedReading")
  /\ (target' # target \/ hasTarget' # hasTarget)
       => (qstamp = cfg.controlSenderId /\ targetMutex = "onGroundSpeedRequest")

C11_MismatchIgnored == [][C11_Step]_vars

\* A measurement of another sender is being dropped after a measurement and
\* a target of the configured senders were stored.
C11_Witness ==
  /\ rpc = "ignored" /\ rstamp # cfg.inputSenderId
  /\ hasReading /\ nReading >= 1
  /\ hasTarget /\ nTarget >= 1

\* ---------------------------------------------------------------------
\* C12: a tick that found both flags set goes on to lines 149-192 and there
\* sends exactly one ActuationRequest, whose acceleration is the control
\* value of that tick (with the P term alone: p * error, scaled by freq),
\* whose steering is 0, whose isValid is true and whose sender stamp is the
\* configured output id; no step of a handler, of a tick that returned at
\* line 146, or of main sends anything.
C12_Sending == tpc = "control" /\ tpc' # "control"

C12_Step ==
  /\ C12_Sending =>
       /\ tpc' = "idle"
       /\ sent' = Append(sent, [acceleration |-> Scaled(cfg.p * error),
                                steering |-> 0, isValid |-> TRUE,
                                senderStamp |-> cfg.outputSenderId])
  /\ ~C12_Sending => sent' = sent
  /\ (tpc = "idle" /\ tpc' # "idle" /\ hasReading) => tpc' = "checkTarget"
  /\ (tpc = "checkTarget" /\ tpc' # "checkTarget" /\ hasTarget)
       => tpc' = "lockTarget"
  /\ (tpc \in {"lockTarget", "lockReading", "error", "unlockReading",
               "unlockTarget"} /\ tpc' # tpc)
       => tpc' \notin {"idle", "skip"}

C12_OneMessagePerReadyTick == [][C12_Step]_vars

\* Two ticks have each sent their message, with a configured output id and
\* different control values.
C12_Witness ==
  /\ Len(sent) = 2
  /\ cfg.outputSenderId # 0
  /\ sent[1].acceleration # sent[2].acceleration
  /\ tpc = "idle"

\* ---------------------------------------------------------------------
\* C13: a handler is between acquiring and releasing its mutex exactly
\* when it is at lines 111-118 (positions value, flag, unlock).  Whenever
\* the tick is about to read target and reading (line 153) it holds both
\* mutexes, neither handler is between acquiring and releasing its own, and
\* each stored value was written by an update that has returned.
C13_Writing(pc) == pc \in {"value", "flag", "unlock"}

C13_ReadNeverDuringWrite ==
  /\ C13_Writing(rpc) <=> readingMutex = "onGroundSpeedReading"
  /\ C13_Writing(qpc) <=> targetMutex = "onGroundSpeedRequest"
  /\ tpc = "error" =>
       /\ readingMutex = "atFrequency" /\ targetMutex = "atFrequency"
       /\ ~C13_Writing(rpc) /\ ~C13_Writing(qpc)
       /\ nReading >= 1 /\ reading \in Speeds
       /\ nTarget >= 1 /\ target \in Speeds

\* The second tick is about to read while further updates may still arrive.
C13_Witness ==
  /\ tpc = "error"
  /\ Len(sent) = 1
  /\ nReading = 1 /\ nTarget = 1

\* ---------------------------------------------------------------------
\* C14: the tick reads target and reading in one statement (line 153) at
\* which it holds both mutexes and no handler is writing, so the error it
\* goes on with is target - reading of that one instant; the pair is read
\* once: from then to the end of the tick the error is the same, whatever
\* updates arrive meanwhile, and the message sent is computed from it.
C14_Step ==
  /\ (tpc = "error" /\ tpc' # "error") =>
       /\ targetMutex = "atFrequency" /\ readingMutex = "atFrequency"
       /\ qpc \in {"idle", "ignored", "lock"}
       /\ rpc \in {"idle", "ignored", "lock"}
       /\ target \in Speeds /\ reading \in Speeds
       /\ error' = target - reading
       /\ UNCHANGED <<target, reading>>
  /\ tpc \in {"unlockReading", "unlockTarget", "control"} => error' = error
  /\ (tpc = "control" /\ tpc' # "control") =>
       Last(sent').acceleration = Scaled(cfg.p * error)

C14_ConsistentPair == [][C14_Step]_vars

\* The tick is about to compute its control value from a pair that is no
\* longer the stored pair: an update has returned since line 153.
C14_Witness ==
  /\ tpc = "control"
  /\ rpc = "idle" /\ qpc = "idle"
  /\ error = 0
  /\ target # reading
  /\ nReading = 2 /\ nTarget = 2

\* ---------------------------------------------------------------------
\* C15: a tick that reads hasReading or hasTarget as false returns at line
\* 146: its steps change nothing but its own position (the integral,
\* prevError, the stored values, the flags, the mutexes and the messages
\* sent stay as they were), it holds no mutex while it returns, and as long
\* as a flag is unset nothing has been integrated or sent.
C15_Step ==
  /\ (tpc = "idle" /\ tpc' # "idle" /\ ~hasReading) => tpc' = "skip"
  /\ (tpc = "checkTarget" /\ tpc' # "checkTarget" /\ ~hasTarget)
       => tpc' = "skip"
  /\ (tpc' # tpc /\ (tpc' = "skip" \/ tpc = "skip")) =>
       /\ tpc = "skip" => tpc' = "idle"
       /\ UNCHANGED <<mainVars, pidVars, readingVars, targetVars, error,
                      sent, steps>>
  /\ tpc = "skip" =>
       (readingMutex # "atFrequency" /\ targetMutex # "atFrequency")
  /\ (~hasReading \/ ~hasTarget) =>
       (integral = 0 /\ prevError = 0 /\ sent = <<>> /\ steps = <<>>)

C15_NotReadyTickDoesNothing == [][C15_Step]_vars

\* A tick returns at line 146 after two measurements were stored and no
\* target.
C15_Witness ==
  /\ tpc = "skip"
  /\ hasReading /\ nReading = 2
  /\ ~hasTarget /\ qpc = "idle"

\* ---------------------------------------------------------------------
\* C16: with the D term enabled, the first tick that reaches the control
\* law finds prevError = 0, and the D term contributes d * error / dt to
\* its control value (scaled by freq: d * error * freq * freq) whatever the
\* error is; what remains of the sum is the P and I terms.
C16_IntegralAfterFirst ==
  IF Len(steps) >= 2 THEN steps[2].integralBefore ELSE integral

C16_OtherTerms ==
  (IF cfg.hasP THEN cfg.p * steps[1].error * cfg.freq ELSE 0)
  + (IF cfg.hasI THEN cfg.i * C16_IntegralAfterFirst ELSE 0)

C16_FirstDerivativeAgainstZero ==
  (cfg.hasD /\ Len(steps) >= 1) =>
    /\ steps[1].prevError = 0
    /\ steps[1].computed - C16_OtherTerms
         = cfg.d * steps[1].error * cfg.freq * cfg.freq
    /\ DOnly => sent[1].acceleration
                  = cfg.d * steps[1].error * cfg.freq * cfg.freq

\* With D alone and freq = 2 the first tick had a negative error and sent
\* d * error * 4.
C16_Witness ==
  /\ DOnly /\ cfg.freq = 2
  /\ Len(sent) = 1
  /\ steps[1].error < 0
  /\ sent[1].acceleration = cfg.d * steps[1].error * 4

\* ---------------------------------------------------------------------
\* C17 (as claimed): the tick holds the guarding mutex at each of its reads
\* of shared state, the reads of the flags at line 145 included: when it is
\* about to read hasTarget it holds targetMutex, so that no handler is then
\* about to write hasTarget (line 133); and when it is about to read target
\* and reading it holds their mutexes.
C17_Claim ==
  /\ tpc = "checkTarget" =>
       (targetMutex = "atFrequency" /\ qpc # "flag")
  /\ tpc = "error" =>
       (targetMutex = "atFrequency" /\ readingMutex = "atFrequency")

\* ---------------------------------------------------------------------
\* C18: every step of the measurement handler leaves target, hasTarget,
\* integral and prevError as they were, every step of the target handler
\* leaves reading, hasReading, integral and prevError as they were, every
\* step of the tick leaves reading, target and both flags as they were, a
\* stored value or flag changes only in a step of its own handler, integral
\* and prevError change only in a step of the tick, and once main has set
\* the configuration up no step changes it.
C18_Step ==
  /\ rpc' # rpc => UNCHANGED <<target, hasTarget, integral, prevError>>
  /\ qpc' # qpc => UNCHANGED <<reading, hasReading, integral, prevError>>
  /\ tpc' # tpc => UNCHANGED <<reading, hasReading, target, hasTarget>>
  /\ (reading' # reading \/ hasReading' # hasReading) => rpc' # rpc
  /\ (target' # target \/ hasTarget' # hasTarget) => qpc' # qpc
  /\ (integral' # integral \/ prevError' # prevError) => tpc' # tpc
  /\ mpc # "main" => UNCHANGED <<cfg, args>>

C18_Ownership == [][C18_Step]_vars

\* Each of the three callbacks has run to its end at least once, the
\* handlers twice with different values.
C18_Witness ==
  /\ nReading = 2 /\ nTarget = 2
  /\ Len(sent) >= 1
  /\ reading # target
  /\ cfg = Configure(args)
  /\ rpc = "idle" /\ qpc = "idle" /\ tpc = "idle"

\* ---------------------------------------------------------------------
\* C19: no step resets a flag that is set; hence once a message has been
\* sent both flags are set for good, and every tick that starts afterwards
\* passes the test of line 145 instead of returning at line 146, and ends
\* by sending its message.
C19_Step ==
  /\ hasReading => hasReading'
  /\ hasTarget => hasTarget'
  /\ sent # <<>> => (hasReading /\ hasTarget /\ tpc' # "skip")
  /\ (sent # <<>> /\ tpc = "idle" /\ tpc' # "idle") => tpc' = "checkTarget"
  /\ (sent # <<>> /\ tpc = "checkTarget" /\ tpc' # "checkTarget")
       => tpc' = "lockTarget"
  /\ (sent # <<>> /\ tpc # "idle" /\ tpc' = "idle")
       => Len(sent') = Len(sent) + 1

C19_ReadinessMonotone == [][C19_Step]_vars

\* A second tick has sent its message after further updates of both values
\* had returned.
C19_Witness ==
  /\ Len(sent) = 2
  /\ hasReading /\ hasTarget
  /\ nReading = 2 /\ nTarget = 2
  /\ sent[1].acceleration # sent[2].acceleration
  /\ tpc = "idle" /\ rpc = "idle" /\ qpc = "idle"

\* ---------------------------------------------------------------------
\* C20: the tick acquires targetMutex and then readingMutex and releases
\* them in the reverse order, a handler holds only its own mutex and waits
\* for nothing while it holds it, so there is no cycle of waits; under fair
\* scheduling every tick that has started returns, every handler call that
\* has started returns (an accepted update after acquiring its mutex and
\* storing its value), and no step ends the periodic trigger.  A callback
\* that always returns is one that is outside its body again and again.
C20_LockOrder ==
  /\ tpc \in {"lockReading", "error", "unlockReading", "unlockTarget"}
       <=> targetMutex = "atFrequency"
  /\ tpc \in {"error", "unlockReading"} <=> readingMutex = "atFrequency"
  /\ rpc \in {"value", "flag", "unlock"}
       <=> readingMutex = "onGroundSpeedReading"
  /\ qpc \in {"value", "flag", "unlock"}
       <=> targetMutex = "onGroundSpeedRequest"

C20_EveryOperationCompletes ==
  /\ []C20_LockOrder
  /\ [][TimeTriggered => TimeTriggered']_vars
  /\ []<>(tpc = "idle")
  /\ []<>(rpc = "idle")
  /\ []<>(qpc = "idle")

\* The longest chain of waits: the target handler waits for targetMutex,
\* which the tick holds while it waits for readingMutex, which the
\* measurement handler holds.
C20_Witness ==
  /\ qpc = "lock" /\ targetMutex = "atFrequency"
  /\ tpc = "lockReading" /\ readingMutex = "onGroundSpeedReading"
  /\ rpc = "flag"

====
